---- MODULE Spec2Model ----
(***************************************************************************)
(* Live preview of ICU message-format strings: the placeholder extractor   *)
(* of the icu-message-format / icu-xml-format parsers and the editor       *)
(* reconciliation of weblate/static/editor/live_preview.js.                *)
(***************************************************************************)
EXTENDS Integers, Sequences, FiniteSets, TLC

VARIABLES
    ast, extracted, phase,          \* extraction alone: the tree, the map, the step
    text,                           \* editor.value of the translation editor
    unit_defaults, page, old_page, current_page,
    variables, editors, tags, defaults,
    parsed, types, error,
    old_types, changed_page,        \* locals of the latest syncContent run
    editor_id,                      \* the counter behind the editors' ids
    form,                           \* ids of the editors attached to the form
    values, body,                   \* the latest render: its value map, its output
    event,                          \* the event handled last
    clicked                         \* incr of the pager button, 0 for another event

evars == <<ast, extracted, phase>>

uvars == <<text, unit_defaults, page, old_page, current_page, variables, editors,
           tags, defaults, parsed, types, error, old_types, changed_page,
           editor_id, form, values, body, event, clicked>>

vars == <<evars, uvars>>

(***************************************************************************)
(* JavaScript values.  Booleans, null and undefined are kept as the words  *)
(* JSON.stringify and typeof print for them, so that a tri-state flag      *)
(* (true / false / null) and an unset property share one sort.             *)
(***************************************************************************)
JsTrue == "true"
JsFalse == "false"
JsNull == "null"
Undefined == "undefined"

TAG_TYPE == "<,TAG,>"
NUMERIC_TYPES == {"number", "plural", "selectordinal", "spellout"}
DATE_TYPES == {"date", "time", "datetime"}

\* INPUT_TYPES[t], undefined when t is no key of the table.
INPUT_TYPES(t) ==
    CASE t = "date" -> "date"
      [] t = "time" -> "time"
      [] t = "datetime" -> "datetime-local"
      [] t = "duration" -> "number"
      [] t = "select" -> "select"
      [] OTHER -> Undefined

Bool(b) == IF b THEN JsTrue ELSE JsFalse

\* JavaScript truthiness of a flag, a type name or an editor type.
Truthy(v) == v \notin {JsFalse, JsNull, Undefined, ""}

\* The latest observation wins instead of collapsing to null.
update_maybe_value_LastWins(value, old) == value

update_maybe_value(value, old) ==
    IF old = Undefined \/ value = old THEN value ELSE JsNull

(***************************************************************************)
(* Token trees.  A tree is a sequence of tokens; a token is a literal (a   *)
(* string, lit = TRUE) or an array [name, type, ...].  sub is the one      *)
(* object found among token[2..4] as the ordered list of its entries       *)
(* (branch key, sub-tree): the branches of a select or plural, or the      *)
(* single "children" entry of a tag; <<>> when the token carries none.     *)
(***************************************************************************)
Lit == [lit |-> TRUE, name |-> "", type |-> Undefined, sub |-> <<>>]
Tok(n, t) == [lit |-> FALSE, name |-> n, type |-> t, sub |-> <<>>]
Branch(k, v) == [key |-> k, val |-> v]
Node(n, t, s) == [lit |-> FALSE, name |-> n, type |-> t, sub |-> s]
Hash == Tok("#", Undefined)

\* A value that is not an array (undefined, a string) where a tree is expected.
NotArray == <<[lit |-> TRUE, name |-> "not an array", type |-> Undefined, sub |-> <<>>]>>
IsArray(tree) == tree # NotArray

\* Object.keys(obj) of a branch object.
ObjectKeys(sub) == [i \in 1..Len(sub) |-> sub[i].key]

(***************************************************************************)
(* A PlaceholderInfo object.  keys is the insertion order of its own       *)
(* properties; a property not in keys is unset and holds Undefined (<<>>   *)
(* for choices).                                                           *)
(***************************************************************************)
NewData(n) ==
    [name |-> n, type |-> Undefined, is_number |-> Undefined,
     is_date |-> Undefined, is_tag |-> Undefined, is_empty |-> Undefined,
     choices |-> <<>>, editor_type |-> Undefined, keys |-> <<"name">>]

HasKey(data, k) == \E i \in 1..Len(data.keys) : data.keys[i] = k

\* Assigning a property appends its key on the first assignment only.
Touch(data, k) ==
    IF HasKey(data, k) THEN data ELSE [data EXCEPT !.keys = Append(@, k)]

\* variables[name] for the map vs, kept in insertion order: its index, 0 when absent.
IndexOf(vs, n) ==
    IF \E i \in 1..Len(vs) : vs[i].name = n
    THEN CHOOSE i \in 1..Len(vs) : vs[i].name = n
    ELSE 0

Has(vs, n) == IndexOf(vs, n) # 0
Get(vs, n) == vs[IndexOf(vs, n)]
KeysOf(vs) == {vs[i].name : i \in 1..Len(vs)}

Put(vs, data) ==
    IF Has(vs, data.name)
    THEN [vs EXCEPT ![IndexOf(vs, data.name)] = data]
    ELSE Append(vs, data)

\* Only date followed by time widens; time followed by date keeps time.
SetType_OneWay(data, type) ==
    IF ~Truthy(data.type) /\ Truthy(type)
    THEN [Touch(data, "type") EXCEPT !.type = type]
    ELSE IF data.type = "date" /\ type = "time"
         THEN [data EXCEPT !.type = "datetime"]
         ELSE data

\* Lines 39-47: first non-empty type wins, date + time widen to datetime.
SetType(data, type) ==
    IF ~Truthy(data.type) /\ Truthy(type)
    THEN [Touch(data, "type") EXCEPT !.type = type]
    ELSE IF \/ (data.type = "date" /\ type = "time")
            \/ (data.type = "time" /\ type = "date")
         THEN [data EXCEPT !.type = "datetime"]
         ELSE data

\* Lines 49-61: the tri-state flags.
SetFlags(data, token) ==
    LET is_tag == token.type = TAG_TYPE
        children == IF token.sub # <<>> /\ token.sub[1].key = "children"
                    THEN token.sub[1].val ELSE <<>>
        is_empty == ~IsArray(children) \/ Len(children) = 0
        d1 == [Touch(data, "is_number") EXCEPT
                 !.is_number = update_maybe_value(
                     Bool(token.type \in NUMERIC_TYPES), data.is_number)]
        d2 == [Touch(d1, "is_date") EXCEPT
                 !.is_date = update_maybe_value(
                     Bool(token.type \in DATE_TYPES), data.is_date)]
        d3 == [Touch(d2, "is_tag") EXCEPT
                 !.is_tag = update_maybe_value(Bool(is_tag), data.is_tag)]
    IN  IF is_tag
        THEN [Touch(d3, "is_empty") EXCEPT
                !.is_empty = update_maybe_value(Bool(is_empty), data.is_empty)]
        ELSE d3

\* The latest select replaces the choices instead of extending them.
SetChoices_Replace(data, token) ==
    IF token.type = "select" /\ token.sub # <<>>
    THEN [Touch(data, "choices") EXCEPT !.choices = ObjectKeys(token.sub)]
    ELSE data

\* Lines 65-69: the branch keys of a select are appended to choices.
SetChoices(data, token) ==
    IF token.type = "select" /\ token.sub # <<>>
    THEN [Touch(data, "choices") EXCEPT
            !.choices = IF HasKey(data, "choices")
                        THEN data.choices \o ObjectKeys(token.sub)
                        ELSE ObjectKeys(token.sub)]
    ELSE data

\* Lines 72-76: the editor type; no branch taken leaves it as it was.
SetEditorType(data) ==
    IF Truthy(data.type) /\ Truthy(INPUT_TYPES(data.type))
    THEN [Touch(data, "editor_type") EXCEPT !.editor_type = INPUT_TYPES(data.type)]
    ELSE IF Truthy(data.is_number)
    THEN [Touch(data, "editor_type") EXCEPT !.editor_type = "number"]
    ELSE IF Truthy(data.is_date)
    THEN [Touch(data, "editor_type") EXCEPT !.editor_type = data.type]
    ELSE IF Truthy(data.is_tag) /\ Truthy(data.is_empty)
    THEN [Touch(data, "editor_type") EXCEPT !.editor_type = JsFalse]
    ELSE data

\* Lines 34-76: one placeholder token applied to its entry.
UpdateData(data, token) ==
    SetEditorType(SetChoices(SetFlags(SetType(data, token.type), token), token))

RECURSIVE extract(_, _), ExtractFrom(_, _, _), ExtractToken(_, _), ExtractSub(_, _, _)

\* The '#' of a plural branch is taken for a placeholder.
ExtractToken_HashCounts(token, vs) ==
    IF token.lit THEN vs
    ELSE LET data == IF Has(vs, token.name)
                     THEN Get(vs, token.name)
                     ELSE NewData(token.name)
         IN  ExtractSub(token.sub, 1, Put(vs, UpdateData(data, token)))

\* Lines 27-82: one token, then its sub-trees in the order of Object.values.
ExtractToken(token, vs) ==
    IF token.lit THEN vs
    ELSE IF token.name = "#" THEN vs
    ELSE LET data == IF Has(vs, token.name)
                     THEN Get(vs, token.name)
                     ELSE NewData(token.name)
         IN  ExtractSub(token.sub, 1, Put(vs, UpdateData(data, token)))

ExtractSub(sub, i, vs) ==
    IF i > Len(sub) THEN vs
    ELSE ExtractSub(sub, i + 1, extract(sub[i].val, vs))

ExtractFrom(tree, i, vs) ==
    IF i > Len(tree) THEN vs
    ELSE ExtractFrom(tree, i + 1, ExtractToken(tree[i], vs))

\* extract(ast, variables = {}), lines 20-86.
extract(tree, vs) == IF ~IsArray(tree) THEN vs ELSE ExtractFrom(tree, 1, vs)

(***************************************************************************)
(* The extract of window.FormatMessageParser: name, type and choices only, *)
(* the first type kept as it is.                                           *)
(***************************************************************************)
\* Lines 22-23: thing.type is set once.
SetFirstType(thing, type) ==
    IF ~Truthy(thing.type) /\ Truthy(type)
    THEN [Touch(thing, "type") EXCEPT !.type = type]
    ELSE thing

RECURSIVE extractParts(_, _, _), ExtractPart(_, _), ExtractValues(_, _, _)

\* Lines 12-38: one part, then the values of its objects.
ExtractPart(part, out) ==
    IF part.lit THEN out
    ELSE IF part.name = "#" THEN out
    ELSE LET thing == IF Has(out, part.name) THEN Get(out, part.name)
                      ELSE NewData(part.name)
         IN  ExtractValues(part.sub, 1,
                Put(out, SetChoices(SetFirstType(thing, part.type), part)))

ExtractValues(sub, i, out) ==
    IF i > Len(sub) THEN out
    ELSE ExtractValues(sub, i + 1, extractParts(sub[i].val, 1, out))

\* Lines 4-42, from part i of ast on.
extractParts(tree, i, out) ==
    IF ~IsArray(tree) \/ i > Len(tree) THEN out
    ELSE extractParts(tree, i + 1, ExtractPart(tree[i], out))

(***************************************************************************)
(* The token trees the extractor is run on.                                *)
(***************************************************************************)
MaxLen == 3

SelYesNo == Node("x", "select",
                 <<Branch("yes", <<Tok("y", Undefined)>>), Branch("no", <<Lit>>)>>)
SelYesMaybe == Node("x", "select",
                    <<Branch("yes", <<>>), Branch("maybe", <<Lit>>)>>)
SelInner == Node("x", "select", <<Branch("in", <<>>)>>)
SelNested == Node("x", "select",
                  <<Branch("one", <<SelInner, Tok("y", "time")>>),
                    Branch("other", <<>>)>>)
PluralY == Node("y", "plural",
                <<Branch("one", <<Lit>>), Branch("other", <<Hash, Lit>>)>>)
TagEmpty == Node("x", TAG_TYPE, <<>>)
TagFull == Node("x", TAG_TYPE, <<Branch("children", <<Tok("y", "number")>>)>>)

TokenSet ==
    {Lit, Hash, Tok("x", Undefined), Tok("x", "number"), Tok("x", "date"),
     Tok("x", "time"), Tok("x", "duration"),
     SelYesNo, SelYesMaybe, SelNested, PluralY, TagEmpty, TagFull}

SeqsUpTo(S, n) == UNION {[1..k -> S] : k \in 0..n}

TreeSet == SeqsUpTo(TokenSet, MaxLen) \cup {NotArray}

(***************************************************************************)
(* The values of the value maps: a JavaScript value with its typeof.       *)
(***************************************************************************)
Val(t, v) == [typeof |-> t, val |-> v]
Num(v) == Val("number", v)
Str(v) == Val("string", v)
DateOf(v) == Val("object", v)
Now == DateOf("now")
UndefinedValue == Val("undefined", "undefined")

\* handleTag.bind(this, key)
handleTag(key) == Val("function", key)

\* JavaScript truthiness of a default value.
TruthyValue(v) == ~(v = Num("0") \/ v = Str("") \/ v.typeof = "undefined")

\* Objects keyed by placeholder name.
EmptyMap == [n \in {} |-> UndefinedValue]
MapPut(m, k, v) == [n \in DOMAIN m \cup {k} |-> IF n = k THEN v ELSE m[n]]
ObjectAssign(a, b) ==
    [n \in DOMAIN a \cup DOMAIN b |-> IF n \in DOMAIN b THEN b[n] ELSE a[n]]
has(obj, key) == key \in DOMAIN obj
TypeofAt(obj, key) == IF key \in DOMAIN obj THEN obj[key].typeof ELSE "undefined"

\* null, or a value that is not null.
Null == [null |-> TRUE, v |-> <<>>]
Some(x) == [null |-> FALSE, v |-> x]

(***************************************************************************)
(* JSON.stringify of a PlaceholderInfo: its own properties in insertion    *)
(* order, the undefined ones left out.                                     *)
(***************************************************************************)
FieldOf(data, k) ==
    CASE k = "name" -> <<data.name>>
      [] k = "type" -> <<data.type>>
      [] k = "is_number" -> <<data.is_number>>
      [] k = "is_date" -> <<data.is_date>>
      [] k = "is_tag" -> <<data.is_tag>>
      [] k = "is_empty" -> <<data.is_empty>>
      [] k = "editor_type" -> <<data.editor_type>>
      [] k = "choices" -> data.choices

Written(data, k) == k = "choices" \/ FieldOf(data, k) # <<Undefined>>

JSONstringify(data) ==
    LET ks == SelectSeq(data.keys, LAMBDA k : Written(data, k))
    IN  [i \in 1..Len(ks) |-> [k |-> ks[i], v |-> FieldOf(data, ks[i])]]

(***************************************************************************)
(* An editor: the form group made for one placeholder.  value is what the  *)
(* control shows; a control keeps only a value its input type accepts.     *)
(***************************************************************************)
NumericStrings == {"0", "1", "5"}
InSeq(x, q) == \E i \in 1..Len(q) : q[i] = x

\* Lines 226-228: the control's value after it is given set_value.
Shown(type, set_value) ==
    IF Truthy(type.is_date) /\ set_value.typeof = "object"
    THEN IF set_value.val = "" THEN "" ELSE set_value.val
    ELSE CASE type.editor_type = "number" ->
                IF set_value.val \in NumericStrings THEN set_value.val ELSE ""
           [] type.editor_type \in {"date", "time", "datetime-local"} -> ""
           [] type.editor_type = "select" ->
                IF InSeq(set_value.val, type.choices) THEN set_value.val ELSE ""
           [] OTHER -> set_value.val

\* Lines 196-262: the editor made for (key, type) and shown with set_value.
NewEditor(id, key, type, set_value) ==
    [id |-> id, key |-> key, edit_type |-> type.editor_type,
     is_date |-> type.is_date, options |-> type.choices,
     value |-> Shown(type, set_value)]

\* Lines 184-192: the default value of a placeholder that is not a tag.
DefaultValue(cur, key, type) ==
    IF has(cur, key)
    THEN IF Truthy(type.is_date) THEN DateOf(cur[key].val) ELSE cur[key]
    ELSE IF Truthy(type.is_date) THEN Now
    ELSE IF Truthy(type.is_number) THEN Num("1")
    ELSE IF type.type = "select" /\ HasKey(type, "choices")
    THEN IF Len(type.choices) > 0 THEN Str(type.choices[1]) ELSE UndefinedValue
    ELSE Str(key)

\* Lines 221-224: a stored value is shown only when its typeof is the default's.
SetValue(vmap, key, value) ==
    IF TypeofAt(vmap, key) # value.typeof THEN value ELSE vmap[key]

\* The page change is not looked at.
Unchanged_AnyPage(s, chg, key, type) ==
    /\ ~s.types.null
    /\ Has(s.types.v, key)
    /\ JSONstringify(Get(s.types.v, key)) = JSONstringify(type)

\* Lines 163-166: the entry is carried forward.
Unchanged(s, chg, key, type) ==
    /\ ~chg
    /\ ~s.types.null
    /\ Has(s.types.v, key)
    /\ JSONstringify(Get(s.types.v, key)) = JSONstringify(type)

\* Lines 171-173: what is copied for a carried entry.
CopyDefault(s, acc, key) ==
    IF has(s.defaults, key) /\ TruthyValue(s.defaults[key])
    THEN MapPut(acc.new_defaults, key, s.defaults[key])
    ELSE acc.new_defaults

CopyForward(s, acc, key) ==
    [acc EXCEPT
       !.new_editors = IF has(s.editors, key)
                       THEN MapPut(@, key, s.editors[key]) ELSE @,
       !.new_tags = IF has(s.tags, key) THEN MapPut(@, key, s.tags[key]) ELSE @,
       !.new_defaults = CopyDefault(s, acc, key)]

\* A tag is given an editor as any other placeholder is.
SyncEntry_TagAsPlain(s, chg, acc, type) ==
    LET key == type.name
        value == DefaultValue(s.current_page, key, type)
    IN  IF Unchanged(s, chg, key, type) THEN CopyForward(s, acc, key)
        ELSE [acc EXCEPT
                !.new_defaults = MapPut(@, key, value),
                !.new_editors = MapPut(@, key,
                    NewEditor(acc.editor_id, key, type,
                              SetValue(s.variables, key, value))),
                !.editor_id = @ + 1,
                !.form = @ \cup {acc.editor_id}]

\* An editor is made whatever editor_type is.
SyncEntry_NeverSuppressed(s, chg, acc, type) ==
    LET key == type.name
        value == DefaultValue(s.current_page, key, type)
    IN  IF Unchanged(s, chg, key, type) THEN CopyForward(s, acc, key)
        ELSE IF Truthy(type.is_tag)
        THEN [acc EXCEPT !.new_tags = MapPut(@, key, handleTag(key))]
        ELSE [acc EXCEPT
                !.new_defaults = MapPut(@, key, value),
                !.new_editors = MapPut(@, key,
                    NewEditor(acc.editor_id, key, type,
                              SetValue(s.variables, key, value))),
                !.editor_id = @ + 1,
                !.form = @ \cup {acc.editor_id}]

\* Lines 161-263: one turn of the loop over Object.entries(types).
SyncEntry(s, chg, acc, type) ==
    LET key == type.name
        value == DefaultValue(s.current_page, key, type)
    IN  IF Unchanged(s, chg, key, type) THEN CopyForward(s, acc, key)
        ELSE IF Truthy(type.is_tag)
        THEN [acc EXCEPT !.new_tags = MapPut(@, key, handleTag(key))]
        ELSE IF type.editor_type = JsFalse
        THEN [acc EXCEPT !.new_defaults = MapPut(@, key, value)]
        ELSE [acc EXCEPT
                !.new_defaults = MapPut(@, key, value),
                !.new_editors = MapPut(@, key,
                    NewEditor(acc.editor_id, key, type,
                              SetValue(s.variables, key, value))),
                !.editor_id = @ + 1,
                !.form = @ \cup {acc.editor_id}]

RECURSIVE SyncLoop(_, _, _, _, _)

SyncLoop(s, chg, new_types, i, acc) ==
    IF i > Len(new_types) THEN acc
    ELSE SyncLoop(s, chg, new_types, i + 1, SyncEntry(s, chg, acc, new_types[i]))

\* No old editor is removed.
Removed_None(old_editors, new_editors) == {}

\* Only the editors of keys that have a new editor are compared.
Removed_Replaced(old_editors, new_editors) ==
    {old_editors[k].id : k \in {n \in DOMAIN old_editors :
        has(new_editors, n) /\ new_editors[n].id # old_editors[n].id}}

\* Lines 267-269: the old editors that are not the new editor of their key.
Removed(old_editors, new_editors) ==
    {old_editors[k].id : k \in {n \in DOMAIN old_editors :
        ~(has(new_editors, n) /\ new_editors[n].id = old_editors[n].id)}}

(***************************************************************************)
(* The page: the texts typed, the pages of defaults, the values entered.   *)
(***************************************************************************)
MaxEditorId == 5

BadText == [ok |-> FALSE, tree |-> <<>>]
Source(tree) == [ok |-> TRUE, tree |-> tree]

Texts ==
    {Source(<<Tok("x", "number")>>),
     Source(<<Lit, Tok("x", "number")>>),
     Source(<<Tok("x", "date")>>),
     Source(<<Tok("x", "date"), Tok("x", Undefined)>>),
     Source(<<Tok("x", Undefined), Tok("x", "date")>>),
     Source(<<Tok("x", "duration")>>),
     Source(<<Tok("x", Undefined)>>),
     Source(<<SelYesNo>>),
     Source(<<TagFull>>),
     Source(<<TagEmpty, Tok("x", Undefined)>>),
     BadText}

PageZero == [n \in {"x"} |-> Num("0")]
PageOne == [n \in {"y"} |-> Str("")]
PageTwo == [n \in {"x"} |-> Str("5")]

\* data-defaults absent (line 82: one undefined page), or two or three pages
\* of defaults.
UnitDefaultsSet == {<<EmptyMap>>, <<PageZero, PageOne>>,
                    <<PageZero, PageOne, PageTwo>>}

InputVals == {"5"}

\* What a user can enter in an editor: an option of a select, else a text.
Enterable(e) ==
    IF e.edit_type = "select" THEN {e.options[i] : i \in 1..Len(e.options)}
    ELSE InputVals

(***************************************************************************)
(* syncContent, lines 134-291, on the state s it starts from: the state    *)
(* it leaves.  The text of the editor parses to its tree, or parse throws. *)
(***************************************************************************)
\* Lines 137-142: parse and extract, for each text that can be typed.
Parsed == [txt \in Texts |-> IF txt.ok THEN Some(txt.tree) ELSE Null]
Extracted == [txt \in Texts |-> IF txt.ok THEN Some(extract(txt.tree, <<>>)) ELSE Null]

syncContent(s) ==
    LET new_types == Extracted[s.text]
        chg == s.old_page # s.page
        acc0 == [new_editors |-> EmptyMap, new_tags |-> EmptyMap,
                 new_defaults |-> EmptyMap, editor_id |-> s.editor_id,
                 form |-> s.form]
        acc == IF new_types.null THEN acc0
               ELSE SyncLoop(s, chg, new_types.v, 1, acc0)
    IN  [parsed |-> Parsed[s.text],
         types |-> new_types,
         error |-> IF s.text.ok THEN JsNull ELSE "ParseError",
         old_types |-> s.types,
         changed_page |-> chg,
         old_page |-> s.page,
         editors |-> acc.new_editors,
         tags |-> acc.new_tags,
         defaults |-> acc.new_defaults,
         editor_id |-> acc.editor_id,
         form |-> acc.form \ Removed(s.editors, acc.new_editors)]

\* The defaults are assigned last.
ValuesOf_DefaultsLast(defs, vmap, tgs) == ObjectAssign(ObjectAssign(tgs, vmap), defs)

\* Line 121: defaults, then the user's values, then the tag handlers.
ValuesOf(defs, vmap, tgs) == ObjectAssign(ObjectAssign(defs, vmap), tgs)

\* updateTranslation, lines 108-132: the value map given to interpret (none
\* when the error is shown instead) and what the preview then shows.
RenderValues(err, defs, vmap, tgs) ==
    IF err # JsNull THEN EmptyMap ELSE ValuesOf(defs, vmap, tgs)

\* The parts interpret returns: a text, the span handleTag makes, or null.
TextPart == [kind |-> "text", tag |-> "", inner |-> <<>>]
NullPart == [kind |-> "null", tag |-> "", inner |-> <<>>]

\* handleTag, lines 22-29, called through the bound function fn.
CallTag(fn, children) == [kind |-> "span", tag |-> fn.val, inner |-> children]

\* The function is called whatever the value is.
InterpretTag_AlwaysCalls(fn, children) == CallTag(fn, children)

\* part_001 lines 92-95: the handler of a tag token, given the value
\* registered under the name of the tag.
InterpretTag(fn, children) ==
    IF fn.typeof = "function" THEN CallTag(fn, children) ELSE NullPart

RECURSIVE interpret(_, _)

\* part_001 lines 88-98: one part for each token; a token that is not a tag
\* is formatted to a text by the formatting library.
interpret(tree, vals) ==
    [i \in 1..Len(tree) |->
        LET t == tree[i]
        IN  IF ~t.lit /\ t.type = TAG_TYPE
            THEN InterpretTag(IF has(vals, t.name) THEN vals[t.name]
                              ELSE UndefinedValue,
                              IF Len(t.sub) = 0 THEN <<>>
                              ELSE interpret(t.sub[1].val, vals))
            ELSE TextPart]

\* What the preview body holds: a text (lines 112, 127) or parts (line 131).
BodyText(msg) == [kind |-> "text", msg |-> msg, parts |-> <<>>]
BodyParts(parts) == [kind |-> "parts", msg |-> "", parts |-> parts]

\* Lines 109-131: the body after updateTranslation; interpret may throw.
RenderBodies(err, tree, vals) ==
    IF err # JsNull THEN {BodyText(err)}
    ELSE IF tree.null THEN {BodyParts(<<>>)}
    ELSE {BodyParts(interpret(tree.v, vals)), BodyText("Interpreter Error")}

State ==
    [text |-> text, page |-> page, old_page |-> old_page,
     current_page |-> current_page, variables |-> variables,
     editors |-> editors, tags |-> tags, defaults |-> defaults,
     types |-> types, editor_id |-> editor_id, form |-> form]

\* Lines 85-92: the state initLivePreview starts syncContent from.
Blank(ud, txt) ==
    [text |-> txt, page |-> 0, old_page |-> -1, current_page |-> ud[1],
     variables |-> EmptyMap, editors |-> EmptyMap, tags |-> EmptyMap,
     defaults |-> EmptyMap, types |-> Null, editor_id |-> 0, form |-> {}]

Idle ==
    /\ ast = <<>>
    /\ extracted = <<>>
    /\ phase = "idle"

\* initLivePreview, lines 82-92 and 328-329: the first syncContent has run.
Init ==
    /\ Idle
    /\ \E ud \in UnitDefaultsSet, txt \in Texts :
          \E out \in {syncContent(Blank(ud, txt))} :
              /\ text = txt
              /\ unit_defaults = ud
              /\ page = 0
              /\ current_page = ud[1]
              /\ variables = EmptyMap
              /\ parsed = out.parsed
              /\ types = out.types
              /\ error = out.error
              /\ old_types = out.old_types
              /\ changed_page = out.changed_page
              /\ old_page = out.old_page
              /\ editors = out.editors
              /\ tags = out.tags
              /\ defaults = out.defaults
              /\ editor_id = out.editor_id
              /\ form = out.form
              /\ values = RenderValues(out.error, out.defaults, EmptyMap, out.tags)
              /\ body \in RenderBodies(out.error, out.parsed, values)
    /\ event = "load"
    /\ clicked = 0

\* A failed render puts back the editors, tags and defaults of before the run.
Synced_RolledBack(s) ==
    \E out \in {syncContent(s)} :
        /\ out.editor_id <= MaxEditorId
        /\ parsed' = out.parsed
        /\ types' = out.types
        /\ error' = out.error
        /\ old_types' = out.old_types
        /\ changed_page' = out.changed_page
        /\ old_page' = out.old_page
        /\ editor_id' = out.editor_id
        /\ values' = RenderValues(out.error, out.defaults, s.variables, out.tags)
        /\ body' \in RenderBodies(out.error, out.parsed, values')
        /\ IF body' = BodyText("Interpreter Error")
           THEN /\ editors' = s.editors
                /\ tags' = s.tags
                /\ defaults' = s.defaults
                /\ form' = s.form
           ELSE /\ editors' = out.editors
                /\ tags' = out.tags
                /\ defaults' = out.defaults
                /\ form' = out.form

\* The state syncContent leaves, and the render that ends it.  The run is
\* left out once the ids it hands out would pass MaxEditorId.
Synced(s) ==
    \E out \in {syncContent(s)} :
        /\ out.editor_id <= MaxEditorId
        /\ parsed' = out.parsed
        /\ types' = out.types
        /\ error' = out.error
        /\ old_types' = out.old_types
        /\ changed_page' = out.changed_page
        /\ old_page' = out.old_page
        /\ editors' = out.editors
        /\ tags' = out.tags
        /\ defaults' = out.defaults
        /\ editor_id' = out.editor_id
        /\ form' = out.form
        /\ values' = RenderValues(out.error, out.defaults, s.variables, out.tags)
        /\ body' \in RenderBodies(out.error, out.parsed, values')

\* Line 319: an input event of the translation editor.
Input ==
    \E txt \in Texts \ {text} :
        /\ text' = txt
        /\ Synced([State EXCEPT !.text = txt])
        /\ event' = "input"
        /\ clicked' = 0
        /\ UNCHANGED <<unit_defaults, page, current_page, variables>>
        /\ UNCHANGED evars

\* The value is written to a map that is no longer the current one.
UpdateValue_StaleMap ==
    \E key \in DOMAIN editors :
        \E v \in Enterable(editors[key]) :
            /\ editors' = [editors EXCEPT ![key].value = v]
            /\ variables' = variables
            /\ values' = RenderValues(error, defaults, variables', tags)
            /\ body' \in RenderBodies(error, parsed, values')
            /\ event' = "value"
            /\ clicked' = 0
            /\ UNCHANGED <<text, unit_defaults, page, old_page, current_page,
                           tags, defaults, parsed, types, error, old_types,
                           changed_page, editor_id, form>>
            /\ UNCHANGED evars

\* updateValue, lines 230-237: an input event of the editor of key.
UpdateValue ==
    \E key \in DOMAIN editors :
        \E v \in Enterable(editors[key]) :
            LET value == IF Truthy(editors[key].is_date) THEN DateOf(v) ELSE Str(v)
            IN  /\ editors' = [editors EXCEPT ![key].value = v]
                /\ variables' = MapPut(variables, key, value)
                /\ values' = RenderValues(error, defaults, variables', tags)
                /\ body' \in RenderBodies(error, parsed, values')
                /\ event' = "value"
                /\ clicked' = 0
                /\ UNCHANGED <<text, unit_defaults, page, old_page, current_page,
                               tags, defaults, parsed, types, error, old_types,
                               changed_page, editor_id, form>>
                /\ UNCHANGED evars

\* The page is kept within its bounds without wrapping.
NextPage_Clamped(incr, n) ==
    LET p == IF incr = -2 THEN 0
             ELSE IF incr = 2 THEN n - 1
             ELSE page + incr
    IN  IF p < 0 THEN 0 ELSE IF p >= n THEN n - 1 ELSE p

\* Lines 300-305: the page a pager button leads to.
NextPage(incr, n) ==
    LET p == IF incr = -2 THEN 0
             ELSE IF incr = 2 THEN n - 1
             ELSE page + incr
    IN  IF p < 0 THEN n - 1 ELSE IF p >= n THEN 0 ELSE p

\* changePage, lines 296-317: a click on one of the four pager buttons.
ChangePage ==
    \E incr \in {-2, -1, 1, 2} :
        LET p == NextPage(incr, Len(unit_defaults))
        IN  /\ page' = p
            /\ variables' = EmptyMap
            /\ current_page' = unit_defaults[p + 1]
            /\ Synced([State EXCEPT !.page = p, !.variables = EmptyMap,
                                    !.current_page = unit_defaults[p + 1]])
            /\ event' = "page"
            /\ clicked' = incr
            /\ UNCHANGED <<text, unit_defaults>>
            /\ UNCHANGED evars

Next == Input \/ UpdateValue \/ ChangePage

Spec == Init /\ [][Next]_vars

(***************************************************************************)
(* Extraction alone: a tree is chosen and extract is applied to it.        *)
(***************************************************************************)
ExtractInit ==
    /\ ast \in TreeSet
    /\ extracted = <<>>
    /\ phase = "parsed"
    /\ text = BadText
    /\ unit_defaults = <<EmptyMap>>
    /\ page = 0
    /\ old_page = 0
    /\ current_page = EmptyMap
    /\ variables = EmptyMap
    /\ editors = EmptyMap
    /\ tags = EmptyMap
    /\ defaults = EmptyMap
    /\ parsed = Null
    /\ types = Null
    /\ error = JsNull
    /\ old_types = Null
    /\ changed_page = FALSE
    /\ editor_id = 0
    /\ form = {}
    /\ values = EmptyMap
    /\ body = BodyParts(<<>>)
    /\ event = "none"
    /\ clicked = 0

Extract ==
    /\ phase = "parsed"
    /\ extracted' = extract(ast, <<>>)
    /\ phase' = "extracted"
    /\ UNCHANGED ast
    /\ UNCHANGED uvars

ExtractNext == Extract

ExtractSpec == ExtractInit /\ [][ExtractNext]_vars

(***************************************************************************)
(* The occurrences of a name: the placeholder tokens of a tree in          *)
(* depth-first, left-to-right order, a token before the tokens of its      *)
(* branches.                                                               *)
(***************************************************************************)
RECURSIVE Flatten(_), FlattenSub(_)

Flatten(tree) ==
    IF tree = <<>> THEN <<>>
    ELSE LET t == Head(tree)
         IN  (IF t.lit \/ t.name = "#" THEN <<>> ELSE <<t>>)
             \o FlattenSub(t.sub) \o Flatten(Tail(tree))

FlattenSub(sub) ==
    IF sub = <<>> THEN <<>> ELSE Flatten(Head(sub).val) \o FlattenSub(Tail(sub))

IsNamed(n, t) == t.name = n

OccOf(tree, n) == SelectSeq(Flatten(tree), LAMBDA t : IsNamed(n, t))

\* true when every observation is true, false when every one is false.
TriOf(S) == IF S = {JsTrue} THEN JsTrue ELSE IF S = {JsFalse} THEN JsFalse ELSE JsNull

Perms(n) == {p \in [1..n -> 1..n] : \A i, j \in 1..n : p[i] = p[j] => i = j}

Permuted(tree, p) == [i \in 1..Len(tree) |-> tree[p[i]]]

FlagsOf(data) == <<data.is_number, data.is_date, data.is_tag>>

\* C6: each of is_number, is_date, is_tag is true when the occurrence value is
\* true for all occurrences of the name, false when it is false for all, and
\* unknown otherwise; a flag unknown after a prefix of the tree is unknown at
\* the end; every permutation of the tree gives the same flags.
C6_TriStateMerge ==
    phase = "extracted" =>
        /\ \A n \in KeysOf(extracted) :
              LET occ == OccOf(ast, n)
                  d == Get(extracted, n)
                  I == 1..Len(occ)
              IN  /\ d.is_number = TriOf({Bool(occ[i].type \in NUMERIC_TYPES) : i \in I})
                  /\ d.is_date = TriOf({Bool(occ[i].type \in DATE_TYPES) : i \in I})
                  /\ d.is_tag = TriOf({Bool(occ[i].type = TAG_TYPE) : i \in I})
        /\ \A k \in 1..Len(ast) :
              \A pre \in {extract(SubSeq(ast, 1, k), <<>>)} :
                  \A n \in KeysOf(pre) :
                      \A i \in 1..3 :
                          FlagsOf(Get(pre, n))[i] = JsNull =>
                              FlagsOf(Get(extracted, n))[i] = JsNull
        /\ \A p \in Perms(Len(ast)) :
              \A q \in {extract(Permuted(ast, p), <<>>)} :
                  /\ KeysOf(q) = KeysOf(extracted)
                  /\ \A n \in KeysOf(q) :
                        FlagsOf(Get(q, n)) = FlagsOf(Get(extracted, n))

\* x as number, as plain text and as number again: is_number stays unknown.
C6_Witness ==
    /\ phase = "extracted"
    /\ ast = <<Tok("x", "number"), Tok("x", Undefined), Tok("x", "number")>>
    /\ Get(extracted, "x").is_number = JsNull
    /\ Get(extracted, "x").is_date = JsFalse

\* classify of section 4.2 on a finished entry, as the editor_type it stands for.
ClassifyFinal(d) ==
    IF d.type \in DATE_TYPES THEN INPUT_TYPES(d.type)
    ELSE IF d.type = "duration" THEN "number"
    ELSE IF d.type = "select" THEN "select"
    ELSE IF d.is_number = JsTrue THEN "number"
    ELSE IF d.is_date = JsTrue THEN d.type
    ELSE IF d.is_tag = JsTrue /\ d.is_empty = JsTrue THEN JsFalse
    ELSE Undefined

\* C7: the editor kind stored in every extracted entry is classify applied to
\* the entry's final kind and final merged flags.
C7_EditorKindOfMerged ==
    phase = "extracted" =>
        \A n \in KeysOf(extracted) :
            Get(extracted, n).editor_type = ClassifyFinal(Get(extracted, n))

\* The kind of section 3: the first non-empty kind, date and time widened.
FirstKind(occ) ==
    IF \E i \in 1..Len(occ) : occ[i].type # Undefined
    THEN LET f == CHOOSE i \in 1..Len(occ) :
                    /\ occ[i].type # Undefined
                    /\ \A j \in 1..(i - 1) : occ[j].type = Undefined
             later == {occ[j].type : j \in (f + 1)..Len(occ)}
         IN  IF occ[f].type = "date" /\ "time" \in later THEN "datetime"
             ELSE IF occ[f].type = "time" /\ "date" \in later THEN "datetime"
             ELSE occ[f].type
    ELSE Undefined

\* C9: the extracted kind is the first non-empty kind observed, widened to
\* datetime when that kind is date and a later one is time (or the reverse);
\* nothing else changes an assigned kind.
C9_KindAssignment ==
    phase = "extracted" =>
        \A n \in KeysOf(extracted) :
            Get(extracted, n).type = FirstKind(OccOf(ast, n))

\* x as time, then as date, then as number: datetime, and it stays datetime.
C9_Witness ==
    /\ phase = "extracted"
    /\ ast = <<Tok("x", "time"), Tok("x", "date"), Tok("x", "number")>>
    /\ Get(extracted, "x").type = "datetime"

RECURSIVE ChoicesOf(_)

\* The branch keys of the select occurrences of a list of tokens, in order.
ChoicesOf(occ) ==
    IF occ = <<>> THEN <<>>
    ELSE (IF Head(occ).type = "select" THEN ObjectKeys(Head(occ).sub) ELSE <<>>)
         \o ChoicesOf(Tail(occ))

\* C10: choices is the concatenation, in encounter order, of the branch keys of
\* every select occurrence of the name, nested ones included, duplicates kept.
C10_ChoiceAccumulation ==
    phase = "extracted" =>
        \A n \in KeysOf(extracted) :
            LET d == Get(extracted, n)
                occ == OccOf(ast, n)
            IN  /\ d.choices = ChoicesOf(occ)
                /\ HasKey(d, "choices") <=> \E i \in 1..Len(occ) : occ[i].type = "select"
                /\ Get(extractParts(ast, 1, <<>>), n).choices = ChoicesOf(occ)

\* select {yes, no}, select {yes, maybe}, then a select nested in a select.
C10_Witness ==
    /\ phase = "extracted"
    /\ ast = <<SelYesNo, SelYesMaybe, SelNested>>
    /\ Get(extracted, "x").choices =
           <<"yes", "no", "yes", "maybe", "one", "other", "in">>

(***************************************************************************)
(* Reconciliation.                                                         *)
(***************************************************************************)
\* Two PlaceholderInfo equal field by field, whatever the order of their keys.
SameInfo(a, b) ==
    /\ a.name = b.name
    /\ a.type = b.type
    /\ a.is_number = b.is_number
    /\ a.is_date = b.is_date
    /\ a.is_tag = b.is_tag
    /\ a.is_empty = b.is_empty
    /\ a.choices = b.choices
    /\ a.editor_type = b.editor_type

\* An input event between two runs that both parsed.
EditParsed == event' = "input" /\ error = JsNull /\ error' = JsNull

\* The names of both maps whose info is the same in both.
StableNames == {n \in KeysOf(types.v) \cap KeysOf(types'.v) :
                    SameInfo(Get(types.v, n), Get(types'.v, n))}

\* C1 (as claimed): a raw-text edit that fails to parse leaves the widget set,
\* the widgets attached to the form, the tag set and the default map as they
\* were before the run.
C1_ParseErrorKeepsState ==
    [][(event' = "input" /\ error' # JsNull) =>
          /\ editors' = editors
          /\ form' = form
          /\ tags' = tags
          /\ defaults' = defaults]_vars

\* C1 (amended): a raw-text edit that fails to parse skips the loop over the
\* placeholders, detaches every widget and leaves the widget set, the tag set
\* and the default map empty; only the user's overrides are as before.
C1_ParseErrorClearsState ==
    [][(event' = "input" /\ error' # JsNull) =>
          /\ types'.null
          /\ editors' = EmptyMap
          /\ form' = {}
          /\ tags' = EmptyMap
          /\ defaults' = EmptyMap
          /\ variables' = variables]_vars

\* A failed parse right after a run that had an editor for x, with an override.
C1_Witness ==
    /\ event = "input"
    /\ error # JsNull
    /\ ~old_types.null
    /\ Has(old_types.v, "x")
    /\ Get(old_types.v, "x").editor_type = "number"
    /\ has(variables, "x")
    /\ editors = EmptyMap

\* C2: between two consecutive runs that parsed, with no page change, a name
\* whose info is equal field by field keeps the same widget instance and keeps
\* its stored override.
C2_Stability ==
    [][EditParsed =>
          \A n \in StableNames :
              /\ has(editors, n) =>
                    has(editors', n) /\ editors'[n].id = editors[n].id
              /\ has(variables, n) =>
                    has(variables', n) /\ variables'[n] = variables[n]]_vars

\* date, number or text: the category of a stored value and of an editor type.
CategoryOfValue(v) ==
    IF v.typeof = "object" THEN "date"
    ELSE IF v.typeof = "number" THEN "number" ELSE "text"

CategoryOfEditor(t) ==
    IF t \in {"date", "time", "datetime-local"} THEN "date"
    ELSE IF t = "number" THEN "number" ELSE "text"

\* C3: when the info of a name with a widget changed, the widget is replaced by
\* another instance, and an override of another category than the new editor
\* kind is discarded: the renderer receives the fresh default for the name.
C3_Invalidation ==
    [][EditParsed =>
          \A n \in (KeysOf(types.v) \cap KeysOf(types'.v)) \ StableNames :
              (has(editors, n) /\ has(editors', n)) =>
                  /\ editors'[n].id # editors[n].id
                  /\ editors[n].id \notin form'
                  /\ (/\ has(variables, n)
                      /\ CategoryOfValue(variables[n]) #
                            CategoryOfEditor(editors'[n].edit_type))
                        => values'[n] = defaults'[n]]_vars

\* C4: between two consecutive runs that parsed, with no page change, a name
\* whose info is value-equal keeps the default value it had.
C4_DefaultCarried ==
    [][EditParsed =>
          \A n \in StableNames :
              has(defaults, n) => has(defaults', n) /\ defaults'[n] = defaults[n]]_vars

\* The default a kind can give, when the page gives none.
KindDefaults(d) ==
    {Now, Num("1"), Str(d.name)} \cup {Str(d.choices[i]) : i \in 1..Len(d.choices)}

DefaultByEditorKind(d) ==
    IF d.editor_type \in {"date", "time", "datetime-local"} THEN Now
    ELSE IF d.editor_type = "number" THEN Num("1")
    ELSE IF d.editor_type = "select" /\ Len(d.choices) > 0 THEN Str(d.choices[1])
    ELSE Str(d.name)

\* C8: the default of a placeholder that is not a tag and has no literal on the
\* page is the current instant for a date-like editor, 1 for a numeric editor
\* (kind duration included), the first choice of a select, else its name.
C8_DefaultByEditorKind ==
    error = JsNull =>
        \A n \in KeysOf(types.v) :
            (Get(types.v, n).is_tag # JsTrue /\ ~has(current_page, n)) =>
                /\ has(defaults, n)
                /\ defaults[n] = DefaultByEditorKind(Get(types.v, n))

RECURSIVE NamesIn(_), NamesInSub(_), StripHash(_), StripHashSub(_)

\* The names of the placeholder tokens a tree holds, at any depth.
NamesIn(tree) ==
    IF ~IsArray(tree) THEN {}
    ELSE UNION {(IF tree[i].lit THEN {} ELSE {tree[i].name})
                \cup NamesInSub(tree[i].sub) : i \in 1..Len(tree)}

NamesInSub(sub) == UNION {NamesIn(sub[j].val) : j \in 1..Len(sub)}

\* The tree with its '#' tokens taken out, at any depth.
StripHash(tree) ==
    IF ~IsArray(tree) \/ tree = <<>> THEN tree
    ELSE LET t == Head(tree)
         IN  (IF ~t.lit /\ t.name = "#" THEN <<>>
              ELSE <<[t EXCEPT !.sub = StripHashSub(t.sub)]>>)
             \o StripHash(Tail(tree))

StripHashSub(sub) ==
    [j \in 1..Len(sub) |-> Branch(sub[j].key, StripHash(sub[j].val))]

\* C11: the keys of the extracted map are the distinct placeholder names of the
\* tree, '#' left out; a '#' token makes no entry and changes no entry; an
\* input that is not a sequence gives the accumulator back as it was.
C11_KeySet ==
    phase = "extracted" =>
        /\ KeysOf(extracted) = NamesIn(ast) \ {"#"}
        /\ Len(extracted) = Cardinality(KeysOf(extracted))
        /\ extracted = extract(StripHash(ast), <<>>)
        /\ extract(NotArray, extracted) = extracted
        /\ ~IsArray(ast) => extracted = <<>>

\* '#' at the top and in a plural branch, between two uses of x.
C11_Witness ==
    /\ phase = "extracted"
    /\ ast = <<Tok("x", "number"), Hash, PluralY>>
    /\ KeysOf(extracted) = {"x", "y"}
    /\ Get(extracted, "y").is_number = JsTrue

\* The ids of the editors of a map.
IdsOf(eds) == {eds[n].id : n \in DOMAIN eds}

\* C12: after every successful reconcile each name whose is_tag is true has
\* the tag callback bound to it and no editor, the editor it had before the
\* run is no longer in the form, and at no time has a name both an editor and
\* a tag callback.
C12_TagCallbackNoWidget ==
    /\ [](/\ DOMAIN editors \cap DOMAIN tags = {}
          /\ error = JsNull =>
                \A n \in KeysOf(types.v) :
                    Get(types.v, n).is_tag = JsTrue =>
                        /\ has(tags, n)
                        /\ tags[n] = handleTag(n)
                        /\ ~has(editors, n)
                        /\ \A id \in form : \E k \in DOMAIN editors :
                              k # n /\ editors[k].id = id)
    /\ [][error' = JsNull =>
            \A n \in KeysOf(types'.v) \cap DOMAIN editors :
                Get(types'.v, n).is_tag = JsTrue => editors[n].id \notin form']_vars

\* x had an editor and the text typed next uses x as a tag only.
C12_Witness ==
    /\ event = "input"
    /\ error = JsNull
    /\ ~old_types.null
    /\ Has(old_types.v, "x")
    /\ Get(old_types.v, "x").is_tag = JsFalse
    /\ Get(old_types.v, "x").editor_type = "number"
    /\ Get(types.v, "x").is_tag = JsTrue
    /\ tags["x"] = handleTag("x")
    /\ ~has(editors, "x")

\* C13: the renderer is given, for a name, the tag callback when one is
\* installed, else the value the user entered when one is stored, else the
\* default; it is given a value for these names only.
C13_ValuePrecedence ==
    error = JsNull =>
        /\ DOMAIN values = DOMAIN defaults \cup DOMAIN variables \cup DOMAIN tags
        /\ \A n \in DOMAIN values :
              values[n] = IF has(tags, n) THEN tags[n]
                          ELSE IF has(variables, n) THEN variables[n]
                          ELSE defaults[n]

\* x was a plain placeholder with an entered value and is now a tag.
C13_Witness ==
    /\ error = JsNull
    /\ has(variables, "x")
    /\ has(tags, "x")
    /\ values["x"] = handleTag("x")
    /\ has(defaults, "y")
    /\ values["y"] = defaults["y"]

\* The tag tokens at the top of the tree rendered last.
TagTokens == {i \in 1..Len(parsed.v) :
                ~parsed.v[i].lit /\ parsed.v[i].type = TAG_TYPE}

\* C14: in a render that gave parts, a tag token whose name has a callable in
\* the value map is the span that callable makes of the rendered children,
\* and a tag token whose name has no callable there is null; a name used as a
\* tag and as a plain placeholder has no tag callback and renders as null.
C14_TagFallback ==
    body.kind = "parts" =>
        \A i \in TagTokens :
            LET t == parsed.v[i]
                part == body.parts[i]
                kids == IF Len(t.sub) = 0 THEN <<>> ELSE t.sub[1].val
            IN  /\ TypeofAt(values, t.name) = "function" =>
                      /\ part.kind = "span"
                      /\ part.tag = t.name
                      /\ Len(part.inner) = Len(kids)
                      /\ \A j \in 1..Len(kids) : part.inner[j].kind = "text"
                /\ TypeofAt(values, t.name) # "function" => part = NullPart
                /\ Get(types.v, t.name).is_tag # JsTrue =>
                      /\ ~has(tags, t.name)
                      /\ TypeofAt(values, t.name) # "function"
                      /\ part = NullPart

\* x is a tag and a plain placeholder: the value map holds its default, a
\* string, and the tag is rendered as null.
C14_Witness ==
    /\ body.kind = "parts"
    /\ parsed.v = <<TagEmpty, Tok("x", Undefined)>>
    /\ Get(types.v, "x").is_tag = JsNull
    /\ values["x"] = Str("x")
    /\ body.parts[1] = NullPart

\* x is a tag only: its callback makes the span of the rendered child.
C14_WitnessCalled ==
    /\ body.kind = "parts"
    /\ parsed.v = <<TagFull>>
    /\ body.parts[1] = [kind |-> "span", tag |-> "x", inner |-> <<TextPart>>]

\* The value an editor holds, as updateValue reads it.
ValueHeld(e) == IF e.is_date = JsTrue THEN DateOf(e.value) ELSE Str(e.value)

\* C15: a value change of an editor stores the value the editor holds under
\* the editor's name in the current override map and renders again with it;
\* the tree, the PlaceholderInfo map, the editors and the form, the defaults,
\* the tags, the page and the other overrides stay as they were.
C15_EditIsRenderOnly ==
    [][event' = "value" =>
         /\ UNCHANGED <<text, parsed, types, error, old_types, defaults, tags,
                        page, old_page, current_page, changed_page, form,
                        editor_id, unit_defaults>>
         /\ DOMAIN editors' = DOMAIN editors
         /\ \E key \in DOMAIN editors :
               /\ \A n \in DOMAIN editors \ {key} : editors'[n] = editors[n]
               /\ editors'[key].id = editors[key].id
               /\ editors'[key].id \in form'
               /\ variables' = MapPut(variables, key, ValueHeld(editors'[key]))
               /\ error' = JsNull =>
                     /\ DOMAIN values' = DOMAIN values \cup {key}
                     /\ values'[key] = variables'[key]
                     /\ \A n \in DOMAIN values \ {key} : values'[n] = values[n]
    ]_vars

\* y is given a value while the value given to x before is kept, on page 1.
C15_Witness ==
    /\ event = "value"
    /\ page = 1
    /\ has(variables, "x")
    /\ has(variables, "y")
    /\ has(editors, "y")
    /\ variables["y"] = Str("5")
    /\ editors["y"].value = "5"
    /\ values["y"] = Str("5")
    /\ values["x"] = variables["x"]

\* The names that are to have an editor, and those that are to have a tag
\* callback, by the PlaceholderInfo map of the last run.
WidgetNames == {n \in KeysOf(types.v) :
                  /\ Get(types.v, n).is_tag # JsTrue
                  /\ Get(types.v, n).editor_type # JsFalse}
TagNames == {n \in KeysOf(types.v) : Get(types.v, n).is_tag = JsTrue}

RenderFailed == body = BodyText("Interpreter Error")

\* The state a run of syncContent starts from, seen from the step it makes.
RunStart == [State EXCEPT !.text = text', !.page = page',
                          !.variables = variables',
                          !.current_page = current_page']

\* C16: when interpret throws, the tree was parsed and no error is stored; the
\* editors, defaults, tags and form are those the reconcile of that run made
\* for the new tree, the body shows the interpreter error and nothing else,
\* and the next input event parses, extracts and renders the new text anew.
C16_RenderErrorLocal ==
    /\ [](RenderFailed =>
            /\ error = JsNull
            /\ ~parsed.null
            /\ ~types.null
            /\ body.parts = <<>>
            /\ DOMAIN editors = WidgetNames
            /\ DOMAIN tags = TagNames
            /\ DOMAIN defaults \subseteq KeysOf(types.v) \ TagNames
            /\ form = IdsOf(editors)
            /\ values = ValuesOf(defaults, variables, tags))
    /\ [][(RenderFailed' /\ event' \in {"input", "page"}) =>
            \E out \in {syncContent(RunStart)} :
                /\ editors' = out.editors
                /\ tags' = out.tags
                /\ defaults' = out.defaults
                /\ form' = out.form
                /\ types' = out.types]_vars
    /\ [][(RenderFailed /\ event' = "input") =>
            /\ parsed' = Parsed[text']
            /\ types' = Extracted[text']
            /\ error' = (IF text'.ok THEN JsNull ELSE "ParseError")
            /\ body' \in RenderBodies(error', parsed', values')]_vars

\* The render of a text failed, and the render of the text typed next, which
\* turns the date editor of x into a number editor, fails as well.
C16_Witness ==
    /\ RenderFailed
    /\ event = "input"
    /\ text = Source(<<Tok("x", "number")>>)
    /\ ~old_types.null
    /\ Has(old_types.v, "x")
    /\ Get(old_types.v, "x").editor_type = "date"
    /\ has(editors, "x")
    /\ editors["x"].edit_type = "number"
    /\ form = {editors["x"].id}

\* C17: the editors in the form are those of the current editor map, one for
\* a name; after a run of syncContent, failed or not, an editor of the map of
\* before that is not the editor of its name in the new map is out of the form.
C17_NoWidgetOutlives ==
    /\ [](/\ form = IdsOf(editors)
          /\ Cardinality(form) = Cardinality(DOMAIN editors)
          /\ \A n \in DOMAIN editors : editors[n].key = n)
    /\ [][event' \in {"input", "page"} =>
            \A n \in DOMAIN editors :
                ~(has(editors', n) /\ editors'[n].id = editors[n].id) =>
                    editors[n].id \notin form']_vars

\* The parse of the text typed failed: the two editors of before are gone.
C17_Witness ==
    /\ event = "input"
    /\ error = "ParseError"
    /\ ~old_types.null
    /\ KeysOf(old_types.v) = {"x", "y"}
    /\ Get(old_types.v, "x").editor_type = "select"
    /\ editor_id >= 2
    /\ editors = EmptyMap
    /\ form = {}

\* After a change of page the editor of x is a new one, alone in the form.
C17_WitnessPage ==
    /\ event = "page"
    /\ changed_page
    /\ has(editors, "x")
    /\ editors["x"].id > 0
    /\ form = {editors["x"].id}

\* What a control shows for the value v, were it given that value.
DisplayOf(v) == v.val

\* C18: in every state where a render was made, each editor shows the value
\* the renderer was given for its name.
C18_DisplayAgrees ==
    error = JsNull =>
        \A n \in DOMAIN editors :
            /\ has(values, n)
            /\ editors[n].value = DisplayOf(values[n])

\* The case of C18 that is a pager button leading to the page already shown,
\* for the editors that show a value and whose name the renderer is given.
C18_SamePageAgrees ==
    (error = JsNull /\ event = "page" /\ ~changed_page) =>
        \A n \in DOMAIN editors :
            (has(values, n) /\ editors[n].value # "") =>
                editors[n].value = DisplayOf(values[n])

\* C19: after a run of syncContent that parsed its text, the names with an
\* editor are the keys of the new PlaceholderInfo map whose is_tag is not true
\* and whose editor_type is not false, and the names with a tag callback are
\* the keys whose is_tag is true.
C19_WidgetDomain ==
    error = JsNull =>
        /\ \A n \in {"x", "y", "#"} :
              /\ has(editors, n) <=>
                    /\ Has(types.v, n)
                    /\ Get(types.v, n).is_tag # JsTrue
                    /\ Get(types.v, n).editor_type # JsFalse
              /\ has(tags, n) <=>
                    /\ Has(types.v, n)
                    /\ Get(types.v, n).is_tag = JsTrue
        /\ DOMAIN editors \cup DOMAIN tags \subseteq {"x", "y", "#"}

\* After editors were made and a text failed to parse, the text typed uses x
\* as an empty tag and as a plain placeholder: x has no editor and no callback.
C19_Witness ==
    /\ event = "input"
    /\ error = JsNull
    /\ old_types.null
    /\ editor_id >= 1
    /\ Get(types.v, "x").is_tag = JsNull
    /\ Get(types.v, "x").editor_type = JsFalse
    /\ ~has(editors, "x")
    /\ ~has(tags, "x")

\* After a change of page, x is a tag with its callback and y has an editor.
C19_WitnessTag ==
    /\ event = "page"
    /\ changed_page
    /\ error = JsNull
    /\ DOMAIN tags = {"x"}
    /\ DOMAIN editors = {"y"}

\* C20: the page is an index of unit_defaults, which has a page at least, and
\* current_page is the page at that index; the first button leads to page 0,
\* the end button to the last page, next to the page after or from the last
\* page to page 0, prev to the page before or from page 0 to the last page.
C20_PageIndex ==
    /\ [](/\ Len(unit_defaults) >= 1
          /\ page \in 0..(Len(unit_defaults) - 1)
          /\ current_page = unit_defaults[page + 1])
    /\ [][event' = "page" =>
            LET N == Len(unit_defaults)
            IN  /\ clicked' \in {-2, -1, 1, 2}
                /\ unit_defaults' = unit_defaults
                /\ clicked' = -2 => page' = 0
                /\ clicked' = 2 => page' = N - 1
                /\ clicked' = 1 => page' = (IF page = N - 1 THEN 0 ELSE page + 1)
                /\ clicked' = -1 => page' = (IF page = 0 THEN N - 1 ELSE page - 1)
       ]_vars

\* With three pages, prev leads to the last page: it was clicked on page 0.
C20_Witness ==
    /\ event = "page"
    /\ clicked = -1
    /\ Len(unit_defaults) = 3
    /\ page = 2
    /\ current_page = PageTwo

\* With three pages, next leads to page 0: it was clicked on the last page.
C20_WitnessNext ==
    /\ event = "page"
    /\ clicked = 1
    /\ Len(unit_defaults) = 3
    /\ page = 0
    /\ changed_page

====
